---- MODULE Spec2Model ----
(***************************************************************************)
(* Tennis scoring engine of ts-tennis-2026 (best of 3 sets, advantage      *)
(* scoring, 7-point tiebreak at 6-6 in every set).                         *)
(*                                                                         *)
(* The engine is a set of pure functions over an immutable MatchState      *)
(* snapshot (src/src/lib/tennis.ts, tennis.utils.ts, tennis.types.ts).     *)
(* The only state is the snapshot the page holds (matchState in            *)
(* src/src/routes/+page.svelte); it is replaced by update(matchState, msg) *)
(* on every message.                                                       *)
(*                                                                         *)
(* Conventions:                                                            *)
(*  - a ScorePair [a, b] is the tuple <<a, b>>;                            *)
(*  - a nullable ScorePair is the tuple itself, or null == <<>>;           *)
(*  - an optional Player is the player's name, or undefined;               *)
(*  - a GameState is a record carrying exactly the fields of its variant;  *)
(*  - arrays are sequences; At(arr, i) reads the code's 0-based index i.   *)
(***************************************************************************)
EXTENDS Integers, Sequences, FiniteSets, TLC

VARIABLES matchState

vars == <<matchState>>

(***************************************************************************)
(* Bound of the model: PointScored is not dispatched to a player who has   *)
(* already MaxTiebreakPoints points in the running tiebreak (the code has  *)
(* no upper bound on tiebreak points).                                     *)
(***************************************************************************)
MaxTiebreakPoints == 8

(***************************************************************************)
(* Bound of the termination property: the longest run of points by one     *)
(* player that the property allows before the match must be decided.       *)
(***************************************************************************)
MaxRunLength == 53

(***************************************************************************)
(* tennis.types.ts                                                         *)
(***************************************************************************)
PreDeucePoint == {"LOVE", "FIFTEEN", "THIRTY", "FORTY"}

PlayerSchema == {"Player1", "Player2"}

undefined == "undefined"

null == <<>>

\* Variant of nextPoint that goes from FIFTEEN straight to FORTY.
nextPoint_skipsThirty(point) ==
  CASE point = "LOVE"    -> "FIFTEEN"
    [] point = "FIFTEEN" -> "FORTY"
    [] point = "THIRTY"  -> "FORTY"
    [] point = "FORTY"   -> "FORTY"

nextPoint(point) ==
  CASE point = "LOVE"    -> "FIFTEEN"
    [] point = "FIFTEEN" -> "THIRTY"
    [] point = "THIRTY"  -> "FORTY"
    [] point = "FORTY"   -> "FORTY"

Msg ==
  {[kind |-> "PointScored", player |-> p] : p \in PlayerSchema}
    \cup {[kind |-> "NewGame"], [kind |-> "NewMatch"]}

\* The GameState schema, with the tiebreak counts up to the bound.
GameState ==
  [kind : {"Normal"}, player1Point : PreDeucePoint, player2Point : PreDeucePoint]
    \cup [kind : {"Deuce"}]
    \cup [kind : {"Advantage"}, playerAtAdvantage : PlayerSchema]
    \cup [kind : {"Tiebreak"}, p1Points : 0..MaxTiebreakPoints,
                               p2Points : 0..MaxTiebreakPoints]
    \cup [kind : {"GameOver"}, gameWinner : PlayerSchema]

(***************************************************************************)
(* canary-js match(value, cases) calls the handler cases[value.kind]; it   *)
(* throws when cases has no handler for that kind and no default.          *)
(***************************************************************************)
matchThrows(kind, handlers) == kind \notin handlers

(***************************************************************************)
(* Array helpers: 0-based read and Array.prototype.map with index.         *)
(***************************************************************************)
At(arr, i) == arr[i + 1]

MapAt(arr, i, v) == [k \in 1..Len(arr) |-> IF k - 1 = i THEN v ELSE arr[k]]

Abs(x) == IF x < 0 THEN -x ELSE x

(***************************************************************************)
(* tennis.utils.ts: game helpers                                           *)
(***************************************************************************)
\* Variant of choosePointOutcome whose Player2 clause tests the points the
\* wrong way round.
choosePointOutcome_copiedClause(player1Point, player2Point, pointWinner) ==
  CASE pointWinner = "Player1" ->
         IF player1Point = "FORTY" /\ player2Point # "FORTY"
           THEN "Player1Wins" ELSE "ContinueGame"
    [] pointWinner = "Player2" ->
         IF player1Point = "FORTY" /\ player2Point # "FORTY"
           THEN "Player2Wins" ELSE "ContinueGame"

choosePointOutcome(player1Point, player2Point, pointWinner) ==
  CASE pointWinner = "Player1" ->
         IF player1Point = "FORTY" /\ player2Point # "FORTY"
           THEN "Player1Wins" ELSE "ContinueGame"
    [] pointWinner = "Player2" ->
         IF player2Point = "FORTY" /\ player1Point # "FORTY"
           THEN "Player2Wins" ELSE "ContinueGame"

\* Variant of advanceNormalGame that never leaves Normal for Deuce.
advanceNormalGame_noDeuce(player1Point, player2Point, pointWinner) ==
  CASE pointWinner = "Player1" ->
         [kind |-> "Normal",
          player1Point |-> nextPoint(player1Point),
          player2Point |-> player2Point]
    [] pointWinner = "Player2" ->
         [kind |-> "Normal",
          player1Point |-> player1Point,
          player2Point |-> nextPoint(player2Point)]

advanceNormalGame(player1Point, player2Point, pointWinner) ==
  CASE pointWinner = "Player1" ->
         IF nextPoint(player1Point) = "FORTY" /\ player2Point = "FORTY"
           THEN [kind |-> "Deuce"]
           ELSE [kind |-> "Normal",
                 player1Point |-> nextPoint(player1Point),
                 player2Point |-> player2Point]
    [] pointWinner = "Player2" ->
         IF nextPoint(player2Point) = "FORTY" /\ player1Point = "FORTY"
           THEN [kind |-> "Deuce"]
           ELSE [kind |-> "Normal",
                 player1Point |-> player1Point,
                 player2Point |-> nextPoint(player2Point)]

\* updateGameState's handlers, one per GameState variant.
onNormal(game, pointWinner) ==
  LET outcome == choosePointOutcome(game.player1Point, game.player2Point,
                                    pointWinner)
  IN CASE outcome = "Player1Wins" ->
            [kind |-> "GameOver", gameWinner |-> "Player1"]
       [] outcome = "Player2Wins" ->
            [kind |-> "GameOver", gameWinner |-> "Player2"]
       [] outcome = "ContinueGame" ->
            advanceNormalGame(game.player1Point, game.player2Point, pointWinner)

\* Variant of the Deuce handler that builds a partial Advantage variant.
onDeuce_noHolder(game, pointWinner) ==
  [kind |-> "Advantage"]

onDeuce(game, pointWinner) ==
  [kind |-> "Advantage", playerAtAdvantage |-> pointWinner]

\* Variant of the Advantage handler: a point against the advantage hands the
\* advantage over instead of returning to Deuce.
onAdvantage_handsOver(game, pointWinner) ==
  IF game.playerAtAdvantage = pointWinner
    THEN [kind |-> "GameOver", gameWinner |-> pointWinner]
    ELSE [kind |-> "Advantage", playerAtAdvantage |-> pointWinner]

\* Variant of the Advantage handler: a point against the advantage is lost.
onAdvantage_keepsAdvantage(game, pointWinner) ==
  IF game.playerAtAdvantage = pointWinner
    THEN [kind |-> "GameOver", gameWinner |-> pointWinner]
    ELSE game

onAdvantage(game, pointWinner) ==
  IF game.playerAtAdvantage = pointWinner
    THEN [kind |-> "GameOver", gameWinner |-> pointWinner]
    ELSE [kind |-> "Deuce"]

\* Variant of the Tiebreak handler without the win-by-two condition.
onTiebreak_noMargin(game, pointWinner) ==
  LET p1 == game.p1Points + (IF pointWinner = "Player1" THEN 1 ELSE 0)
      p2 == game.p2Points + (IF pointWinner = "Player2" THEN 1 ELSE 0)
      isWin == p1 >= 7 \/ p2 >= 7
  IN IF isWin
       THEN [kind |-> "GameOver",
             gameWinner |-> IF p1 > p2 THEN "Player1" ELSE "Player2"]
       ELSE [kind |-> "Tiebreak", p1Points |-> p1, p2Points |-> p2]

onTiebreak(game, pointWinner) ==
  LET p1 == game.p1Points + (IF pointWinner = "Player1" THEN 1 ELSE 0)
      p2 == game.p2Points + (IF pointWinner = "Player2" THEN 1 ELSE 0)
      isWin == (p1 >= 7 \/ p2 >= 7) /\ Abs(p1 - p2) >= 2
  IN IF isWin
       THEN [kind |-> "GameOver",
             gameWinner |-> IF p1 > p2 THEN "Player1" ELSE "Player2"]
       ELSE [kind |-> "Tiebreak", p1Points |-> p1, p2Points |-> p2]

\* Variant of updateGameState that restarts a finished game.
updateGameState_restartsOver(game, pointWinner) ==
  CASE game.kind = "Normal"    -> onNormal(game, pointWinner)
    [] game.kind = "Deuce"     -> onDeuce(game, pointWinner)
    [] game.kind = "Advantage" -> onAdvantage(game, pointWinner)
    [] game.kind = "Tiebreak"  -> onTiebreak(game, pointWinner)
    [] game.kind = "GameOver"  ->
         [kind |-> "Normal", player1Point |-> "LOVE", player2Point |-> "LOVE"]

updateGameState(game, pointWinner) ==
  CASE game.kind = "Normal"    -> onNormal(game, pointWinner)
    [] game.kind = "Deuce"     -> onDeuce(game, pointWinner)
    [] game.kind = "Advantage" -> onAdvantage(game, pointWinner)
    [] game.kind = "Tiebreak"  -> onTiebreak(game, pointWinner)
    [] game.kind = "GameOver"  -> game

(***************************************************************************)
(* tennis.utils.ts: set and match helpers                                  *)
(***************************************************************************)
updateSetWithGameWinner(set, winner) ==
  IF winner = "Player1" THEN <<set[1] + 1, set[2]>> ELSE <<set[1], set[2] + 1>>

\* Variant of setWinner that accepts a one-game lead at six games.
setWinner_leadOne(set) ==
  LET p1 == set[1]
      p2 == set[2]
  IN CASE p1 >= 6 /\ p1 - p2 >= 1 -> "Player1"
       [] p2 >= 6 /\ p2 - p1 >= 1 -> "Player2"
       [] OTHER -> undefined

\* Variant of setWinner without the 7-6 clauses.
setWinner_noTiebreakWin(set) ==
  LET p1 == set[1]
      p2 == set[2]
  IN CASE p1 >= 6 /\ p1 - p2 >= 2 -> "Player1"
       [] p2 >= 6 /\ p2 - p1 >= 2 -> "Player2"
       [] OTHER -> undefined

setWinner(set) ==
  LET p1 == set[1]
      p2 == set[2]
  IN CASE p1 >= 6 /\ p1 - p2 >= 2 -> "Player1"
       [] p2 >= 6 /\ p2 - p1 >= 2 -> "Player2"
       [] p1 = 7 /\ p2 = 6 -> "Player1"
       [] p2 = 7 /\ p1 = 6 -> "Player2"
       [] OTHER -> undefined

\* Variant of didPlayerWinMatch that declares a winner after one set.
didPlayerWinMatch_oneSet(sets) ==
  LET results == [i \in 1..Len(sets) |-> setWinner(sets[i])]
      p1SetWins == Cardinality({i \in 1..Len(sets) : results[i] = "Player1"})
      p2SetWins == Cardinality({i \in 1..Len(sets) : results[i] = "Player2"})
  IN IF p1SetWins >= 1 THEN "Player1"
     ELSE IF p2SetWins >= 1 THEN "Player2" ELSE undefined

didPlayerWinMatch(sets) ==
  LET results == [i \in 1..Len(sets) |-> setWinner(sets[i])]
      p1SetWins == Cardinality({i \in 1..Len(sets) : results[i] = "Player1"})
      p2SetWins == Cardinality({i \in 1..Len(sets) : results[i] = "Player2"})
  IN IF p1SetWins >= 2 THEN "Player1"
     ELSE IF p2SetWins >= 2 THEN "Player2" ELSE undefined

(***************************************************************************)
(* tennis.ts                                                               *)
(***************************************************************************)
startGame == [kind |-> "Normal", player1Point |-> "LOVE", player2Point |-> "LOVE"]

startMatch ==
  [sets |-> <<<<0, 0>>, <<0, 0>>, <<0, 0>>>>,
   tiebreaks |-> <<null, null, null>>,
   currentGame |-> startGame,
   currentSet |-> 1,
   matchWinner |-> undefined]

\* Variant of finalizeTiebreak that records the tiebreak score without the
\* point that ended it.
finalizeTiebreak_withoutFinalPoint(match, gameWinner, setIndex) ==
  LET tb == match.currentGame
  IN IF tb.kind # "Tiebreak" THEN match
     ELSE LET finalScore == <<tb.p1Points, tb.p2Points>>
          IN [match EXCEPT !.tiebreaks = MapAt(match.tiebreaks, setIndex, finalScore),
                           !.currentGame = startGame]

\* Variant of finalizeTiebreak that records the score but leaves the finished
\* tiebreak in place as the current game.
finalizeTiebreak_keepsGame(match, gameWinner, setIndex) ==
  LET tb == match.currentGame
  IN IF tb.kind # "Tiebreak" THEN match
     ELSE LET finalScore ==
                <<tb.p1Points + (IF gameWinner = "Player1" THEN 1 ELSE 0),
                  tb.p2Points + (IF gameWinner = "Player2" THEN 1 ELSE 0)>>
          IN [match EXCEPT !.tiebreaks = MapAt(match.tiebreaks, setIndex, finalScore)]

finalizeTiebreak(match, gameWinner, setIndex) ==
  LET tb == match.currentGame
  IN IF tb.kind # "Tiebreak" THEN match
     ELSE LET finalScore ==
                <<tb.p1Points + (IF gameWinner = "Player1" THEN 1 ELSE 0),
                  tb.p2Points + (IF gameWinner = "Player2" THEN 1 ELSE 0)>>
          IN [match EXCEPT !.tiebreaks = MapAt(match.tiebreaks, setIndex, finalScore),
                           !.currentGame = startGame]

\* Variant of updateSetAfterGame that moves to the next set whenever the set
\* is won, also when the match is thereby decided.
updateSetAfterGame_advancesDecided(match, gameWinner) ==
  LET index == match.currentSet - 1
      updatedSets ==
        MapAt(match.sets, index,
              updateSetWithGameWinner(At(match.sets, index), gameWinner))
      setWinner_ == setWinner(At(updatedSets, index))
      matchWinner_ == didPlayerWinMatch(updatedSets)
      nextSet ==
        IF setWinner_ # undefined /\ match.currentSet < 3
          THEN match.currentSet + 1 ELSE match.currentSet
  IN [match EXCEPT !.sets = updatedSets, !.currentSet = nextSet,
                   !.matchWinner = matchWinner_]

updateSetAfterGame(match, gameWinner) ==
  LET index == match.currentSet - 1
      updatedSets ==
        MapAt(match.sets, index,
              updateSetWithGameWinner(At(match.sets, index), gameWinner))
      setWinner_ == setWinner(At(updatedSets, index))
      matchWinner_ == didPlayerWinMatch(updatedSets)
  IN IF matchWinner_ # undefined
       THEN [match EXCEPT !.sets = updatedSets, !.matchWinner = matchWinner_]
       ELSE LET nextSet ==
                  IF setWinner_ # undefined /\ match.currentSet < 3
                    THEN match.currentSet + 1 ELSE match.currentSet
            IN [match EXCEPT !.sets = updatedSets, !.currentSet = nextSet]

\* Variants of scorePoint, each departing from it in one place:
\*   ignoreWinner     - the matchWinner guard is missing;
\*   eagerSetUpdate   - the set is updated before the GameOver test;
\*   recordAtNewIndex - the tiebreak is recorded at the index of the set the
\*                      match has moved to;
\*   noFinalTiebreak  - no tiebreak is started at 6-6 in the third set.
scorePointVariant(state, pointWinner, ignoreWinner, eagerSetUpdate,
                  recordAtNewIndex, noFinalTiebreak) ==
  IF ~ignoreWinner /\ state.matchWinner # undefined THEN state
  ELSE
    LET newGameState == updateGameState(state.currentGame, pointWinner)
    IN IF newGameState.kind # "GameOver"
         THEN [(IF eagerSetUpdate THEN updateSetAfterGame(state, pointWinner)
                                  ELSE state)
                 EXCEPT !.currentGame = newGameState]
         ELSE
           LET updatedMatch == updateSetAfterGame(state, newGameState.gameWinner)
               setIndex == updatedMatch.currentSet - 1
           IN IF state.currentGame.kind = "Tiebreak"
                THEN finalizeTiebreak(updatedMatch, newGameState.gameWinner,
                                      IF recordAtNewIndex THEN setIndex
                                      ELSE state.currentSet - 1)
                ELSE
                  LET games == At(updatedMatch.sets, setIndex)
                  IN IF /\ games[1] = 6 /\ games[2] = 6
                        /\ ~(noFinalTiebreak /\ updatedMatch.currentSet = 3)
                       THEN [updatedMatch EXCEPT !.currentGame =
                               [kind |-> "Tiebreak", p1Points |-> 0, p2Points |-> 0]]
                       ELSE [updatedMatch EXCEPT !.currentGame = startGame]

scorePoint_ignoreWinner(state, pointWinner) ==
  scorePointVariant(state, pointWinner, TRUE, FALSE, FALSE, FALSE)

scorePoint_eagerSetUpdate(state, pointWinner) ==
  scorePointVariant(state, pointWinner, FALSE, TRUE, FALSE, FALSE)

scorePoint_recordAtNewIndex(state, pointWinner) ==
  scorePointVariant(state, pointWinner, FALSE, FALSE, TRUE, FALSE)

scorePoint_noFinalTiebreak(state, pointWinner) ==
  scorePointVariant(state, pointWinner, FALSE, FALSE, FALSE, TRUE)

\* Variant of scorePoint that leaves a finished game in place as currentGame.
scorePoint_keepsGameOver(state, pointWinner) ==
  LET result == scorePointVariant(state, pointWinner, FALSE, FALSE, FALSE, FALSE)
      newGameState == updateGameState(state.currentGame, pointWinner)
  IN IF state.matchWinner = undefined /\ newGameState.kind = "GameOver"
       THEN [result EXCEPT !.currentGame = newGameState]
       ELSE result

scorePoint(state, pointWinner) ==
  IF state.matchWinner # undefined THEN state
  ELSE
    LET newGameState == updateGameState(state.currentGame, pointWinner)
    IN IF newGameState.kind # "GameOver"
         THEN [state EXCEPT !.currentGame = newGameState]
         ELSE
           LET updatedMatch == updateSetAfterGame(state, newGameState.gameWinner)
               setIndex == updatedMatch.currentSet - 1
           IN IF state.currentGame.kind = "Tiebreak"
                THEN finalizeTiebreak(updatedMatch, newGameState.gameWinner,
                                      state.currentSet - 1)
                ELSE
                  LET games == At(updatedMatch.sets, setIndex)
                  IN IF games[1] = 6 /\ games[2] = 6
                       THEN [updatedMatch EXCEPT !.currentGame =
                               [kind |-> "Tiebreak", p1Points |-> 0, p2Points |-> 0]]
                       ELSE [updatedMatch EXCEPT !.currentGame = startGame]

\* Variant of update whose NewMatch keeps the recorded tiebreaks.
update_newMatchKeepsTiebreaks(state, msg) ==
  CASE msg.kind = "PointScored" -> scorePoint(state, msg.player)
    [] msg.kind = "NewGame" -> [state EXCEPT !.currentGame = startGame]
    [] msg.kind = "NewMatch" -> [startMatch EXCEPT !.tiebreaks = state.tiebreaks]

\* Variant of update whose NewGame rebuilds the snapshot from a fresh match,
\* carrying over the sets and the current set only.
update_newGameFromFresh(state, msg) ==
  CASE msg.kind = "PointScored" -> scorePoint(state, msg.player)
    [] msg.kind = "NewGame" ->
         [startMatch EXCEPT !.sets = state.sets, !.currentSet = state.currentSet]
    [] msg.kind = "NewMatch" -> startMatch

update(state, msg) ==
  CASE msg.kind = "PointScored" -> scorePoint(state, msg.player)
    [] msg.kind = "NewGame" -> [state EXCEPT !.currentGame = startGame]
    [] msg.kind = "NewMatch" -> startMatch

(***************************************************************************)
(* Where a call throws: the match calls on the way that find no handler.   *)
(***************************************************************************)
choosePointOutcomeThrows(pointWinner) ==
  matchThrows(pointWinner, {"Player1", "Player2"})

updateGameStateThrows(game, pointWinner) ==
  \/ matchThrows(game.kind, {"Normal", "Deuce", "Advantage", "Tiebreak", "GameOver"})
  \/ game.kind = "Normal" /\ choosePointOutcomeThrows(pointWinner)

scorePointThrows(state, pointWinner) ==
  /\ state.matchWinner = undefined
  /\ updateGameStateThrows(state.currentGame, pointWinner)

updateThrows(state, msg) ==
  \/ matchThrows(msg.kind, {"PointScored", "NewGame", "NewMatch"})
  \/ msg.kind = "PointScored" /\ scorePointThrows(state, msg.player)

(***************************************************************************)
(* +page.svelte: the page holds the snapshot and dispatches messages.      *)
(***************************************************************************)
Init == matchState = startMatch

\* The bound of the model on tiebreak length.
WithinBound(state, player) ==
  state.currentGame.kind = "Tiebreak" =>
    (IF player = "Player1" THEN state.currentGame.p1Points
                           ELSE state.currentGame.p2Points) < MaxTiebreakPoints

PointScored(player) ==
  /\ WithinBound(matchState, player)
  /\ matchState' = update(matchState, [kind |-> "PointScored", player |-> player])

NewGame == matchState' = update(matchState, [kind |-> "NewGame"])

NewMatch == matchState' = update(matchState, [kind |-> "NewMatch"])

Next ==
  \/ \E player \in PlayerSchema : PointScored(player)
  \/ NewGame
  \/ NewMatch

Spec == Init /\ [][Next]_vars

\* The page's point display, getDisplayPoints, is a match over the game kinds
\* Normal, Deuce, Advantage and Tiebreak, with no handler for GameOver.
getDisplayPointsThrows(game) ==
  matchThrows(game.kind, {"Normal", "Deuce", "Advantage", "Tiebreak"})

(***************************************************************************)
(* Messages outside the Msg schema reaching update: an unknown kind, or    *)
(* PointScored with a player that is not one of the two. When update       *)
(* throws, the page's assignment does not happen.                          *)
(***************************************************************************)
MalformedMsg ==
  {[kind |-> "PointScored", player |-> "Player3"],
   [kind |-> "PointScored", player |-> undefined],
   [kind |-> "NewSet"],
   [kind |-> "Reset"]}

Malformed(msg) ==
  IF updateThrows(matchState, msg)
    THEN UNCHANGED matchState
    ELSE matchState' = update(matchState, msg)

NextMalformed ==
  \/ \E player \in PlayerSchema : PointScored(player)
  \/ NewGame
  \/ NewMatch
  \/ \E msg \in MalformedMsg : Malformed(msg)

SpecMalformed == Init /\ [][NextMalformed]_vars

(***************************************************************************)
(* The game transition on its own: updateGameState applied to any game of  *)
(* the GameState schema, as a snapshot taken in from outside may hold.     *)
(***************************************************************************)
InitGame ==
  matchState \in {[startMatch EXCEPT !.currentGame = game] : game \in GameState}

GamePoint(player) ==
  /\ WithinBound(matchState, player)
  /\ ~updateGameStateThrows(matchState.currentGame, player)
  /\ matchState' =
       [matchState EXCEPT
          !.currentGame = updateGameState(matchState.currentGame, player)]

NextGame == \E player \in PlayerSchema : GamePoint(player)

SpecGame == InitGame /\ [][NextGame]_vars

(***************************************************************************)
(* tennis.ts, first draft (lines 1-222): scorePoint carries its own copy   *)
(* of the game transition and takes the set helpers from tennis.utils.ts.  *)
(***************************************************************************)
choosePointOutcome1(player1Point, player2Point, pointWinner) ==
  CASE pointWinner = "Player1" ->
         IF player1Point = "FORTY" /\ player2Point # "FORTY"
           THEN "Player1Wins" ELSE "ContinueGame"
    [] pointWinner = "Player2" ->
         IF player2Point = "FORTY" /\ player1Point # "FORTY"
           THEN "Player2Wins" ELSE "ContinueGame"

advanceNormalGame1(player1Point, player2Point, pointWinner) ==
  CASE pointWinner = "Player1" ->
         IF nextPoint(player1Point) = "FORTY" /\ player2Point = "FORTY"
           THEN [kind |-> "Deuce"]
           ELSE [kind |-> "Normal",
                 player1Point |-> nextPoint(player1Point),
                 player2Point |-> player2Point]
    [] pointWinner = "Player2" ->
         IF nextPoint(player2Point) = "FORTY" /\ player1Point = "FORTY"
           THEN [kind |-> "Deuce"]
           ELSE [kind |-> "Normal",
                 player1Point |-> player1Point,
                 player2Point |-> nextPoint(player2Point)]

\* The constant newGameState of the first draft's scorePoint.
newGameState1(game, pointWinner) ==
  CASE game.kind = "Normal" ->
         (LET outcome == choosePointOutcome1(game.player1Point, game.player2Point,
                                             pointWinner)
          IN CASE outcome = "Player1Wins" ->
                    [kind |-> "GameOver", gameWinner |-> "Player1"]
               [] outcome = "Player2Wins" ->
                    [kind |-> "GameOver", gameWinner |-> "Player2"]
               [] outcome = "ContinueGame" ->
                    advanceNormalGame1(game.player1Point, game.player2Point,
                                       pointWinner))
    [] game.kind = "Deuce" ->
         [kind |-> "Advantage", playerAtAdvantage |-> pointWinner]
    [] game.kind = "Advantage" ->
         (IF game.playerAtAdvantage = pointWinner
            THEN [kind |-> "GameOver", gameWinner |-> pointWinner]
            ELSE [kind |-> "Deuce"])
    [] game.kind = "GameOver" -> game
    [] game.kind = "Tiebreak" ->
         (LET p1 == game.p1Points + (IF pointWinner = "Player1" THEN 1 ELSE 0)
              p2 == game.p2Points + (IF pointWinner = "Player2" THEN 1 ELSE 0)
              isWin == (p1 >= 7 \/ p2 >= 7) /\ Abs(p1 - p2) >= 2
          IN IF isWin
               THEN [kind |-> "GameOver",
                     gameWinner |-> IF p1 > p2 THEN "Player1" ELSE "Player2"]
               ELSE [kind |-> "Tiebreak", p1Points |-> p1, p2Points |-> p2])

updateSetAfterGame1(match, winner) ==
  LET setIndex == match.currentSet - 1
      updatedSets ==
        MapAt(match.sets, setIndex,
              updateSetWithGameWinner(At(match.sets, setIndex), winner))
      thisSet == At(updatedSets, setIndex)
      maybeSetWinner == setWinner(thisSet)
      maybeMatchWinner == didPlayerWinMatch(updatedSets)
      nextSet ==
        IF /\ maybeSetWinner # undefined
           /\ maybeMatchWinner = undefined
           /\ match.currentSet < 3
          THEN match.currentSet + 1 ELSE match.currentSet
  IN [match EXCEPT !.sets = updatedSets, !.currentSet = nextSet,
                   !.matchWinner = maybeMatchWinner]

scorePoint1(state, pointWinner) ==
  IF state.matchWinner # undefined THEN state
  ELSE
    LET newGameState == newGameState1(state.currentGame, pointWinner)
    IN IF newGameState.kind = "GameOver"
         THEN
           LET updatedMatch == updateSetAfterGame1(state, newGameState.gameWinner)
               setIndex == state.currentSet - 1
           IN IF state.currentGame.kind = "Tiebreak"
                THEN
                  LET finalTiebreakScore ==
                        <<state.currentGame.p1Points
                            + (IF newGameState.gameWinner = "Player1" THEN 1 ELSE 0),
                          state.currentGame.p2Points
                            + (IF newGameState.gameWinner = "Player2" THEN 1 ELSE 0)>>
                  IN [updatedMatch EXCEPT
                        !.tiebreaks = MapAt(updatedMatch.tiebreaks, setIndex,
                                            finalTiebreakScore),
                        !.currentGame = startGame]
                ELSE
                  LET currentSetGames == At(updatedMatch.sets, setIndex)
                  IN IF currentSetGames[1] = 6 /\ currentSetGames[2] = 6
                       THEN [updatedMatch EXCEPT !.currentGame =
                               [kind |-> "Tiebreak", p1Points |-> 0, p2Points |-> 0]]
                       ELSE [updatedMatch EXCEPT !.currentGame = startGame]
         ELSE [state EXCEPT !.currentGame = newGameState]

(***************************************************************************)
(* tennis.ts, third draft (lines 357-657): self-contained, with its own    *)
(* game transition, set helpers and scoreGame.                             *)
(***************************************************************************)
choosePointOutcome3(player1Point, player2Point, pointWinner) ==
  CASE pointWinner = "Player1" ->
         IF player1Point = "FORTY" /\ player2Point # "FORTY"
           THEN "Player1Wins" ELSE "ContinueGame"
    [] pointWinner = "Player2" ->
         IF /\ pointWinner = "Player2"
            /\ player2Point = "FORTY"
            /\ player1Point # "FORTY"
           THEN "Player2Wins" ELSE "ContinueGame"

continueNormal(player1Point, player2Point, pointWinner) ==
  LET newP1 == IF pointWinner = "Player1" THEN nextPoint(player1Point)
                                          ELSE player1Point
      newP2 == IF pointWinner = "Player2" THEN nextPoint(player2Point)
                                          ELSE player2Point
  IN IF newP1 = "FORTY" /\ newP2 = "FORTY"
       THEN [kind |-> "Deuce"]
       ELSE [kind |-> "Normal", player1Point |-> newP1, player2Point |-> newP2]

\* The constant newGameState of the third draft's scorePoint.
newGameState3(game, pointWinner) ==
  CASE game.kind = "Normal" ->
         (LET outcome == choosePointOutcome3(game.player1Point, game.player2Point,
                                             pointWinner)
          IN CASE outcome = "Player1Wins" ->
                    [kind |-> "GameOver", gameWinner |-> "Player1"]
               [] outcome = "Player2Wins" ->
                    [kind |-> "GameOver", gameWinner |-> "Player2"]
               [] outcome = "ContinueGame" ->
                    continueNormal(game.player1Point, game.player2Point,
                                   pointWinner))
    [] game.kind = "Deuce" ->
         [kind |-> "Advantage", playerAtAdvantage |-> pointWinner]
    [] game.kind = "Advantage" ->
         (IF game.playerAtAdvantage = pointWinner
            THEN [kind |-> "GameOver", gameWinner |-> pointWinner]
            ELSE [kind |-> "Deuce"])
    [] game.kind = "GameOver" -> game
    [] game.kind = "Tiebreak" ->
         (LET newP1Points == IF pointWinner = "Player1" THEN game.p1Points + 1
                                                        ELSE game.p1Points
              newP2Points == IF pointWinner = "Player2" THEN game.p2Points + 1
                                                        ELSE game.p2Points
          IN IF /\ (newP1Points >= 7 \/ newP2Points >= 7)
                /\ Abs(newP1Points - newP2Points) >= 2
               THEN [kind |-> "GameOver",
                     gameWinner |-> IF newP1Points > newP2Points
                                      THEN "Player1" ELSE "Player2"]
               ELSE [kind |-> "Tiebreak", p1Points |-> newP1Points,
                                          p2Points |-> newP2Points])

didPlayerWinSet(p1, p2, player) ==
  CASE player = "Player1" -> (p1 >= 6 /\ p1 - p2 >= 2) \/ (p1 = 7 /\ p2 = 6)
    [] player = "Player2" -> (p2 >= 6 /\ p2 - p1 >= 2) \/ (p2 = 7 /\ p1 = 6)

updateSetWithGameWinner3(set, winner) ==
  IF winner = "Player1" THEN <<set[1] + 1, set[2]>> ELSE <<set[1], set[2] + 1>>

didPlayerWinMatch3(updatedSets) ==
  LET p1SetsWon ==
        Cardinality({i \in 1..Len(updatedSets) :
                       didPlayerWinSet(updatedSets[i][1], updatedSets[i][2], "Player1")})
      p2SetsWon ==
        Cardinality({i \in 1..Len(updatedSets) :
                       didPlayerWinSet(updatedSets[i][1], updatedSets[i][2], "Player2")})
  IN IF p1SetsWon >= 2 THEN "Player1"
     ELSE IF p2SetsWon >= 2 THEN "Player2" ELSE undefined

scoreGame(match, winner) ==
  LET setIndex == match.currentSet - 1
      currentSetGames == updateSetWithGameWinner3(At(match.sets, setIndex), winner)
      updatedSets == MapAt(match.sets, setIndex, currentSetGames)
      p1Games == currentSetGames[1]
      p2Games == currentSetGames[2]
      setIsOver == \/ didPlayerWinSet(p1Games, p2Games, "Player1")
                   \/ didPlayerWinSet(p1Games, p2Games, "Player2")
      nextSet == IF setIsOver /\ match.currentSet < 3
                   THEN match.currentSet + 1 ELSE match.currentSet
      matchWinner == didPlayerWinMatch3(updatedSets)
  IN [match EXCEPT !.sets = updatedSets, !.currentSet = nextSet,
                   !.matchWinner = matchWinner]

scorePoint3(state, pointWinner) ==
  IF state.matchWinner # undefined THEN state
  ELSE
    LET newGameState == newGameState3(state.currentGame, pointWinner)
    IN IF newGameState.kind = "GameOver"
         THEN
           LET updatedMatch == scoreGame(state, newGameState.gameWinner)
               setIndex == state.currentSet - 1
           IN IF state.currentGame.kind = "Tiebreak"
                THEN
                  LET finalTiebreakScore ==
                        <<state.currentGame.p1Points
                            + (IF newGameState.gameWinner = "Player1" THEN 1 ELSE 0),
                          state.currentGame.p2Points
                            + (IF newGameState.gameWinner = "Player2" THEN 1 ELSE 0)>>
                  IN [updatedMatch EXCEPT
                        !.tiebreaks = MapAt(updatedMatch.tiebreaks, setIndex,
                                            finalTiebreakScore),
                        !.currentGame = startGame]
                ELSE
                  LET currentSetGames == At(updatedMatch.sets, setIndex)
                  IN IF currentSetGames[1] = 6 /\ currentSetGames[2] = 6
                       THEN [updatedMatch EXCEPT !.currentGame =
                               [kind |-> "Tiebreak", p1Points |-> 0, p2Points |-> 0]]
                       ELSE [updatedMatch EXCEPT !.currentGame = startGame]
         ELSE [state EXCEPT !.currentGame = newGameState]

(***************************************************************************)
(* The three drafts side by side: matchState holds one snapshot per draft, *)
(* each started by startMatch() (the same value in the three drafts), and  *)
(* every PointScored message is given to the scorePoint of each draft.     *)
(***************************************************************************)
InitDrafts ==
  matchState = [draft1 |-> startMatch, draft2 |-> startMatch, draft3 |-> startMatch]

PointScoredDrafts(player) ==
  /\ WithinBound(matchState.draft1, player)
  /\ WithinBound(matchState.draft2, player)
  /\ WithinBound(matchState.draft3, player)
  /\ matchState' = [draft1 |-> scorePoint1(matchState.draft1, player),
                    draft2 |-> scorePoint(matchState.draft2, player),
                    draft3 |-> scorePoint3(matchState.draft3, player)]

NextDrafts == \E player \in PlayerSchema : PointScoredDrafts(player)

SpecDrafts == InitDrafts /\ [][NextDrafts]_vars

(***************************************************************************)
(* Vocabulary of the properties: the rules as the specification words them *)
(***************************************************************************)
Other(player) == IF player = "Player1" THEN "Player2" ELSE "Player1"

\* A player's component of a ScorePair.
Of(pair, player) == IF player = "Player1" THEN pair[1] ELSE pair[2]

\* The ScorePair giving `mine` to player and `theirs` to the opponent.
PairFor(player, mine, theirs) ==
  IF player = "Player1" THEN <<mine, theirs>> ELSE <<theirs, mine>>

\* Set-winner rule: six games with a lead of two, or 7-6.
WonSet(set, player) ==
  LET mine == Of(set, player)
      theirs == Of(set, Other(player))
  IN (mine >= 6 /\ mine - theirs >= 2) \/ (mine = 7 /\ theirs = 6)

SetsWon(sets, player) == Cardinality({i \in 1..3 : WonSet(sets[i], player)})

\* The ordered enumeration LOVE < FIFTEEN < THIRTY < FORTY.
PointOrder == <<"LOVE", "FIFTEEN", "THIRTY", "FORTY">>

PointOfGame(game, player) ==
  IF player = "Player1" THEN game.player1Point ELSE game.player2Point

NormalGame(player, mine, theirs) ==
  IF player = "Player1"
    THEN [kind |-> "Normal", player1Point |-> mine, player2Point |-> theirs]
    ELSE [kind |-> "Normal", player1Point |-> theirs, player2Point |-> mine]

TiebreakGame(pair) == [kind |-> "Tiebreak", p1Points |-> pair[1], p2Points |-> pair[2]]

TiebreakPair(game) == <<game.p1Points, game.p2Points>>

GameOver(player) == [kind |-> "GameOver", gameWinner |-> player]

Undecided(state) == state.matchWinner = undefined

\* The point for `player` ends the running game of an undecided match.
EndsGame(state, player) ==
  /\ Undecided(state)
  /\ updateGameState(state.currentGame, player).kind = "GameOver"

(***************************************************************************)
(* C1: once matchWinner is set, scorePoint returns its input unchanged for *)
(* either player, so no PointScored message changes a decided match.       *)
(***************************************************************************)
C1_DecidedMatchIgnoresPoints ==
  ~Undecided(matchState) =>
    \A p \in PlayerSchema :
      /\ scorePoint(matchState, p) = matchState
      /\ update(matchState, [kind |-> "PointScored", player |-> p]) = matchState

\* A match decided in three sets whose running game a point would advance.
C1_Witness ==
  /\ matchState.matchWinner = "Player2"
  /\ matchState.currentSet = 3
  /\ updateGameState(matchState.currentGame, "Player1") # matchState.currentGame
  /\ scorePoint(matchState, "Player1") = matchState

(***************************************************************************)
(* C2: in every reachable state matchWinner is set iff one player has won  *)
(* at least 2 of the 3 sets under the set-winner rule, and it names that   *)
(* player.                                                                 *)
(***************************************************************************)
C2_MatchWinnerIffTwoSets ==
  /\ ~Undecided(matchState) <=>
       \E p \in PlayerSchema : SetsWon(matchState.sets, p) >= 2
  /\ \A p \in PlayerSchema :
       matchState.matchWinner = p <=> SetsWon(matchState.sets, p) >= 2

\* A match won two sets to one.
C2_Witness ==
  /\ matchState.matchWinner = "Player1"
  /\ SetsWon(matchState.sets, "Player1") = 2
  /\ SetsWon(matchState.sets, "Player2") = 1

(***************************************************************************)
(* C3: in a Normal game a point for w ends the game for w when w is at     *)
(* FORTY and the opponent below FORTY; otherwise w's point moves one step  *)
(* along LOVE, FIFTEEN, THIRTY, FORTY, the opponent's point stays, and the *)
(* result is Deuce exactly when both are then FORTY, else Normal.          *)
(***************************************************************************)
C3_Meets(game, w, result) ==
  LET mine == PointOfGame(game, w)
      theirs == PointOfGame(game, Other(w))
  IN IF mine = "FORTY" /\ theirs # "FORTY" THEN result = GameOver(w)
     ELSE \E k \in 1..3 :
            /\ PointOrder[k] = mine
            /\ LET advanced == PointOrder[k + 1]
               IN result = IF advanced = "FORTY" /\ theirs = "FORTY"
                             THEN [kind |-> "Deuce"]
                             ELSE NormalGame(w, advanced, theirs)

C3_NormalGameTransition ==
  matchState.currentGame.kind = "Normal" =>
    \A w \in PlayerSchema :
      C3_Meets(matchState.currentGame, w,
               updateGameState(matchState.currentGame, w))

\* THIRTY-FORTY: the point that brings both players to FORTY gives Deuce.
C3_Witness ==
  /\ matchState.currentGame = NormalGame("Player1", "THIRTY", "FORTY")
  /\ updateGameState(matchState.currentGame, "Player1") = [kind |-> "Deuce"]
  /\ updateGameState(matchState.currentGame, "Player2") = GameOver("Player2")

(***************************************************************************)
(* C4: from Deuce a point for w gives Advantage{w}; from Advantage{A} a    *)
(* point for A gives GameOver{A} and a point for the opponent gives Deuce; *)
(* two points won by different players from Deuce lead back to the very    *)
(* same snapshot, so the cycle can repeat without the game ending.         *)
(***************************************************************************)
C4_DeuceAdvantageCycle ==
  LET game == matchState.currentGame
  IN /\ game.kind = "Deuce" =>
          \A w \in PlayerSchema :
            /\ updateGameState(game, w) =
                 [kind |-> "Advantage", playerAtAdvantage |-> w]
            /\ Undecided(matchState) =>
                 scorePoint(scorePoint(matchState, w), Other(w)) = matchState
     /\ game.kind = "Advantage" =>
          /\ updateGameState(game, game.playerAtAdvantage) =
               GameOver(game.playerAtAdvantage)
          /\ updateGameState(game, Other(game.playerAtAdvantage)) =
               [kind |-> "Deuce"]

\* Advantage Player2 in an undecided match, one point from Deuce again.
C4_Witness ==
  /\ Undecided(matchState)
  /\ matchState.currentGame = [kind |-> "Advantage", playerAtAdvantage |-> "Player2"]
  /\ scorePoint(matchState, "Player1").currentGame = [kind |-> "Deuce"]

(***************************************************************************)
(* C5: in a Tiebreak a point increments only the winner's count; the game  *)
(* ends, for the player with the higher count, iff after the increment     *)
(* some count is >= 7 and the difference is >= 2. So a tiebreak never ends *)
(* before a side reaches 7 nor on a lead of exactly 1.                     *)
(***************************************************************************)
C5_TiebreakTransition ==
  matchState.currentGame.kind = "Tiebreak" =>
    \A w \in PlayerSchema :
      LET before == TiebreakPair(matchState.currentGame)
          mine == Of(before, w) + 1
          theirs == Of(before, Other(w))
          after == PairFor(w, mine, theirs)
          ends == (mine >= 7 \/ theirs >= 7) /\ (mine - theirs >= 2 \/ theirs - mine >= 2)
          result == updateGameState(matchState.currentGame, w)
      IN /\ ends <=> result.kind = "GameOver"
         /\ ends => result = GameOver(IF mine > theirs THEN w ELSE Other(w))
         /\ ~ends => result = TiebreakGame(after)
         /\ (mine < 7 /\ theirs < 7) => result.kind = "Tiebreak"
         /\ (mine - theirs = 1 \/ theirs - mine = 1) => result.kind = "Tiebreak"

\* 7-6 in the tiebreak: 7-6 was not the end, and 8-6 is.
C5_Witness ==
  /\ matchState.currentGame = TiebreakGame(<<7, 6>>)
  /\ updateGameState(matchState.currentGame, "Player1") = GameOver("Player1")
  /\ updateGameState(matchState.currentGame, "Player2") = TiebreakGame(<<7, 7>>)

(***************************************************************************)
(* Vocabulary of the game-ending properties.                               *)
(***************************************************************************)
\* The current set's game count once `player` has won the running game.
UpdatedCount(state, player) ==
  LET set == state.sets[state.currentSet]
  IN PairFor(player, Of(set, player) + 1, Of(set, Other(player)))

UpdatedSets(state, player) ==
  [state.sets EXCEPT ![state.currentSet] = UpdatedCount(state, player)]

\* 6-0 .. 6-4 or 7-5 for `player`.
OutrightWin(count, player) ==
  LET mine == Of(count, player)
      theirs == Of(count, Other(player))
  IN (mine = 6 /\ theirs \in 0..4) \/ (mine = 7 /\ theirs = 5)

\* 6-5, 5-6 or lower, nobody having won.
StillOpen(count) ==
  /\ count[1] <= 6 /\ count[2] <= 6
  /\ count # <<6, 6>>
  /\ \A p \in PlayerSchema : ~OutrightWin(count, p)

(***************************************************************************)
(* C6: when a point ends a non-tiebreak game and the updated count of the  *)
(* current set is 6-0 .. 6-4 or 7-5 (either way round), the leader has won *)
(* the set and, unless the match is thereby decided or currentSet = 3,     *)
(* currentSet increases by one with a fresh Normal{LOVE,LOVE} game; when   *)
(* the count is 6-5, 5-6 or lower without a winner, currentSet is kept and *)
(* a fresh Normal{LOVE,LOVE} game starts in the same set.                  *)
(***************************************************************************)
C6_NonTiebreakGameEnd ==
  \A w \in PlayerSchema :
    (EndsGame(matchState, w) /\ matchState.currentGame.kind # "Tiebreak") =>
      LET count == UpdatedCount(matchState, w)
          result == scorePoint(matchState, w)
          decided == SetsWon(UpdatedSets(matchState, w), w) >= 2
      IN /\ result.sets = UpdatedSets(matchState, w)
         /\ OutrightWin(count, w) =>
              /\ WonSet(result.sets[matchState.currentSet], w)
              /\ (~decided /\ matchState.currentSet < 3) =>
                   /\ result.currentSet = matchState.currentSet + 1
                   /\ result.currentGame = startGame
                   /\ Undecided(result)
         /\ StillOpen(count) =>
              /\ result.currentSet = matchState.currentSet
              /\ result.currentGame = startGame
              /\ Undecided(result)

\* 6-5 in the first set with game point for the leader: 7-5 moves to set 2,
\* while the opponent, at FIFTEEN, cannot end the game.
C6_Witness ==
  /\ matchState.currentSet = 1
  /\ matchState.sets[1] = <<6, 5>>
  /\ matchState.currentGame = NormalGame("Player1", "FORTY", "FIFTEEN")
  /\ scorePoint(matchState, "Player1").sets[1] = <<7, 5>>
  /\ scorePoint(matchState, "Player1").currentSet = 2

C8_TiebreakEnd ==
  \A w \in PlayerSchema :
    (EndsGame(matchState, w) /\ matchState.currentGame.kind = "Tiebreak") =>
      LET i == matchState.currentSet
          before == TiebreakPair(matchState.currentGame)
          winner == updateGameState(matchState.currentGame, w).gameWinner
          result == scorePoint(matchState, w)
      IN /\ winner = w
         /\ result.sets = UpdatedSets(matchState, winner)
         /\ result.sets[i] = PairFor(winner, 7, 6)
         /\ result.tiebreaks =
              [matchState.tiebreaks EXCEPT
                 ![i] = PairFor(winner, Of(before, winner) + 1,
                                Of(before, Other(winner)))]
         /\ result.currentGame = startGame

\* 5-6 in the tiebreak of the first set: Player2's point ends it 5-7.
C8_Witness ==
  /\ matchState.currentSet = 1
  /\ matchState.currentGame = TiebreakGame(<<5, 6>>)
  /\ scorePoint(matchState, "Player2").tiebreaks = <<<<5, 7>>, null, null>>
  /\ scorePoint(matchState, "Player2").sets[1] = <<6, 7>>
  /\ scorePoint(matchState, "Player2").currentSet = 2

(***************************************************************************)
(* C9: in every state reachable through the dispatch function, every set   *)
(* whose score is 7-6 or 6-7 has a tiebreaks entry at the same index whose *)
(* higher count belongs to the set's winner, and every set with any other  *)
(* score has an absent tiebreaks entry.                                    *)
(***************************************************************************)
C9_SevenSixOnlyByTiebreak ==
  \A i \in 1..3 :
    LET set == matchState.sets[i]
        tb == matchState.tiebreaks[i]
        winner == IF set[1] > set[2] THEN "Player1" ELSE "Player2"
    IN IF set \in {<<7, 6>>, <<6, 7>>}
         THEN tb # null /\ Of(tb, winner) > Of(tb, Other(winner))
         ELSE tb = null

(***************************************************************************)
(* C10: when the match is undecided and the point does not end the running *)
(* game, scorePoint's result differs from its input in currentGame only.   *)
(***************************************************************************)
C10_ContinuingPointFrame ==
  \A w \in PlayerSchema :
    ( /\ Undecided(matchState)
      /\ updateGameState(matchState.currentGame, w).kind # "GameOver" ) =>
      LET result == scorePoint(matchState, w)
      IN /\ result.sets = matchState.sets
         /\ result.tiebreaks = matchState.tiebreaks
         /\ result.currentSet = matchState.currentSet
         /\ result.matchWinner = matchState.matchWinner
         /\ result.currentGame = updateGameState(matchState.currentGame, w)

\* 3-2 in the second set after a first-set tiebreak, THIRTY-FIFTEEN.
C10_Witness ==
  /\ Undecided(matchState)
  /\ matchState.currentSet = 2
  /\ matchState.tiebreaks[1] # null
  /\ matchState.sets[2] = <<3, 2>>
  /\ matchState.currentGame = NormalGame("Player1", "THIRTY", "FIFTEEN")
  /\ scorePoint(matchState, "Player1").currentGame =
       NormalGame("Player1", "FORTY", "FIFTEEN")

(***************************************************************************)
(* C11: the point that decides the match leaves currentSet unchanged: when *)
(* a PointScored message turns matchWinner from absent to set, currentSet  *)
(* is the same before and after (a 6-0, 6-0 win ends with currentSet = 2   *)
(* and sets[2] = (0,0)), and the next PointScored message returns the      *)
(* snapshot unchanged.                                                     *)
(***************************************************************************)
C11_DecidingPointKeepsSet ==
  \A w \in PlayerSchema :
    LET result == scorePoint(matchState, w)
    IN (Undecided(matchState) /\ ~Undecided(result)) =>
         /\ result.currentSet = matchState.currentSet
         /\ \A p \in PlayerSchema : scorePoint(result, p) = result
         /\ (UpdatedSets(matchState, w)[1] = PairFor(w, 6, 0)
               /\ UpdatedSets(matchState, w)[2] = PairFor(w, 6, 0)) =>
              (result.currentSet = 2 /\ result.sets[3] = <<0, 0>>)

\* 6-0, 5-0 and FORTY-LOVE: Player1's point decides the match in set 2.
C11_Witness ==
  /\ matchState.sets = <<<<6, 0>>, <<5, 0>>, <<0, 0>>>>
  /\ matchState.currentGame = NormalGame("Player1", "FORTY", "LOVE")
  /\ Undecided(matchState)
  /\ scorePoint(matchState, "Player1").matchWinner = "Player1"
  /\ scorePoint(matchState, "Player1").currentSet = 2

(***************************************************************************)
(* Vocabulary of the scenarios: a sequence of PointScored messages applied *)
(* in order, each to the snapshot the previous one returned.               *)
(***************************************************************************)
RECURSIVE ScoreAll(_, _)
ScoreAll(state, winners) ==
  IF winners = <<>> THEN state
  ELSE ScoreAll(scorePoint(state, Head(winners)), Tail(winners))

\* The orders in which `player` wins `mine` points and the opponent `theirs`.
Interleavings(player, mine, theirs) ==
  {s \in [1..(mine + theirs) -> PlayerSchema] :
     Cardinality({k \in 1..(mine + theirs) : s[k] = player}) = mine}

(***************************************************************************)
(* C12: from set 1 at 6-6 with Tiebreak{0,0}, every interleaving of 7      *)
(* points to one player and 5 to the other that ends on the 7th point of   *)
(* the first keeps currentGame a Tiebreak until the last point, and then   *)
(* gives tiebreaks[0] = (7,5), sets[0] = (7,6), currentSet = 2 and a fresh *)
(* Normal{LOVE,LOVE} game; the same mirrored for the other player.         *)
(***************************************************************************)
C12_TiebreakSevenFive ==
  ( /\ matchState.currentSet = 1
    /\ matchState.sets[1] = <<6, 6>>
    /\ matchState.currentGame = TiebreakGame(<<0, 0>>) ) =>
    \A x \in PlayerSchema :
      \A s \in Interleavings(x, 6, 5) :
        /\ \A k \in 0..11 :
             LET mid == ScoreAll(matchState, SubSeq(s, 1, k))
             IN /\ mid.currentGame.kind = "Tiebreak"
                /\ mid.sets = matchState.sets
                /\ mid.currentSet = 1
        /\ ScoreAll(matchState, s \o <<x>>) =
             [sets |-> <<PairFor(x, 7, 6), <<0, 0>>, <<0, 0>>>>,
              tiebreaks |-> <<PairFor(x, 7, 5), null, null>>,
              currentGame |->
                [kind |-> "Normal", player1Point |-> "LOVE", player2Point |-> "LOVE"],
              currentSet |-> 2,
              matchWinner |-> undefined]

\* The start of the first-set tiebreak, with one such order played out.
C12_Witness ==
  /\ matchState.currentSet = 1
  /\ matchState.sets[1] = <<6, 6>>
  /\ matchState.currentGame = TiebreakGame(<<0, 0>>)
  /\ LET p == "Player1"
         q == "Player2"
         end == ScoreAll(matchState, <<p, q, q, p, p, q, p, q, p, q, p, p>>)
     IN end.tiebreaks[1] = <<7, 5>> /\ end.sets[1] = <<7, 6>> /\ end.currentSet = 2

(***************************************************************************)
(* C13: from an undecided state at Normal{LOVE,LOVE}, four consecutive     *)
(* points to one player X end the game exactly on the fourth point (no     *)
(* shorter run ends it) and add exactly one game for X to the current set; *)
(* from startMatch() with X = Player1 the result is sets =                 *)
(* [(1,0),(0,0),(0,0)], Normal{LOVE,LOVE}, currentSet = 1, no matchWinner. *)
(***************************************************************************)
Repeat(x, n) == [k \in 1..n |-> x]

C13_FourPointsWinGame ==
  ( /\ Undecided(matchState)
    /\ matchState.currentGame = NormalGame("Player1", "LOVE", "LOVE") ) =>
    \A x \in PlayerSchema :
      /\ \A k \in 1..3 :
           ScoreAll(matchState, Repeat(x, k)) =
             [matchState EXCEPT
                !.currentGame = NormalGame(x, PointOrder[k + 1], "LOVE")]
      /\ ScoreAll(matchState, Repeat(x, 4)).sets = UpdatedSets(matchState, x)
      /\ (matchState.sets = <<<<0, 0>>, <<0, 0>>, <<0, 0>>>> /\ x = "Player1") =>
           ScoreAll(matchState, Repeat(x, 4)) =
             [sets |-> <<<<1, 0>>, <<0, 0>>, <<0, 0>>>>,
              tiebreaks |-> <<null, null, null>>,
              currentGame |-> NormalGame("Player1", "LOVE", "LOVE"),
              currentSet |-> 1,
              matchWinner |-> undefined]

\* 2-3 in the second set at LOVE-LOVE: four points to Player2 make it 2-4.
C13_Witness ==
  /\ Undecided(matchState)
  /\ matchState.currentSet = 2
  /\ matchState.sets[2] = <<2, 3>>
  /\ matchState.currentGame = NormalGame("Player1", "LOVE", "LOVE")
  /\ ScoreAll(matchState, Repeat("Player2", 3)).sets[2] = <<2, 3>>
  /\ ScoreAll(matchState, Repeat("Player2", 4)).sets[2] = <<2, 4>>

(***************************************************************************)
(* C14: startMatch() is sets = [(0,0),(0,0),(0,0)], tiebreaks = [absent,   *)
(* absent, absent], currentGame = Normal{LOVE,LOVE}, currentSet = 1, no    *)
(* matchWinner; and NewMatch dispatched on any state returns exactly that  *)
(* snapshot, whatever the state.                                           *)
(***************************************************************************)
FreshMatch ==
  [sets |-> <<<<0, 0>>, <<0, 0>>, <<0, 0>>>>,
   tiebreaks |-> <<<<>>, <<>>, <<>>>>,
   currentGame |->
     [kind |-> "Normal", player1Point |-> "LOVE", player2Point |-> "LOVE"],
   currentSet |-> 1,
   matchWinner |-> "undefined"]

C14_NewMatchIsFresh ==
  /\ startMatch = FreshMatch
  /\ update(matchState, [kind |-> "NewMatch"]) = FreshMatch

\* A second-set tiebreak in progress, after a first set that went to one.
C14_Witness ==
  /\ matchState.currentSet = 2
  /\ matchState.tiebreaks[1] # null
  /\ matchState.currentGame = TiebreakGame(<<3, 2>>)
  /\ update(matchState, [kind |-> "NewMatch"]) = FreshMatch

(***************************************************************************)
(* C15: NewGame dispatched on any state replaces currentGame by            *)
(* Normal{LOVE,LOVE} and leaves sets, tiebreaks, currentSet and            *)
(* matchWinner as they are; PointScored(p) gives exactly scorePoint(state, *)
(* p); the dispatch function adds nothing else.                            *)
(***************************************************************************)
C15_DispatchRoutesOnly ==
  /\ update(matchState, [kind |-> "NewGame"]) =
       [sets |-> matchState.sets,
        tiebreaks |-> matchState.tiebreaks,
        currentGame |-> NormalGame("Player1", "LOVE", "LOVE"),
        currentSet |-> matchState.currentSet,
        matchWinner |-> matchState.matchWinner]
  /\ \A p \in PlayerSchema :
       update(matchState, [kind |-> "PointScored", player |-> p]) =
         scorePoint(matchState, p)

\* 4-4 in a second-set tiebreak: NewGame puts a Normal game in its place.
C15_Witness ==
  /\ matchState.currentSet = 2
  /\ matchState.sets[2] = <<6, 6>>
  /\ matchState.currentGame = TiebreakGame(<<4, 4>>)
  /\ update(matchState, [kind |-> "NewGame"]).currentGame =
       NormalGame("Player1", "LOVE", "LOVE")
  /\ update(matchState, [kind |-> "NewGame"]).sets = matchState.sets

(***************************************************************************)
(* C16: a message that is none of PointScored(Player1),                    *)
(* PointScored(Player2), NewGame, NewMatch is rejected with an error by    *)
(* the dispatch function in every state, whatever the current game         *)
(* variant; it never produces a new state and is never silently ignored.   *)
(***************************************************************************)
C16_MalformedRejected ==
  \A msg \in MalformedMsg : updateThrows(matchState, msg)

(***************************************************************************)
(* Vocabulary: the shapes of the data model.                               *)
(***************************************************************************)
IsScorePair(pair) ==
  /\ DOMAIN pair = 1..2
  /\ pair[1] \in Nat
  /\ pair[2] \in Nat

IsGameState(game) ==
  /\ "kind" \in DOMAIN game
  /\ CASE game.kind = "Normal" ->
            /\ DOMAIN game = {"kind", "player1Point", "player2Point"}
            /\ game.player1Point \in {"LOVE", "FIFTEEN", "THIRTY", "FORTY"}
            /\ game.player2Point \in {"LOVE", "FIFTEEN", "THIRTY", "FORTY"}
       [] game.kind = "Deuce" -> DOMAIN game = {"kind"}
       [] game.kind = "Advantage" ->
            /\ DOMAIN game = {"kind", "playerAtAdvantage"}
            /\ game.playerAtAdvantage \in {"Player1", "Player2"}
       [] game.kind = "Tiebreak" ->
            /\ DOMAIN game = {"kind", "p1Points", "p2Points"}
            /\ game.p1Points \in Nat
            /\ game.p2Points \in Nat
       [] game.kind = "GameOver" ->
            /\ DOMAIN game = {"kind", "gameWinner"}
            /\ game.gameWinner \in {"Player1", "Player2"}
       [] OTHER -> FALSE

IsMatchState(state) ==
  /\ DOMAIN state = {"sets", "tiebreaks", "currentGame", "currentSet", "matchWinner"}
  /\ DOMAIN state.sets = 1..3
  /\ \A i \in 1..3 : IsScorePair(state.sets[i])
  /\ DOMAIN state.tiebreaks = 1..3
  /\ \A i \in 1..3 : state.tiebreaks[i] = <<>> \/ IsScorePair(state.tiebreaks[i])
  /\ IsGameState(state.currentGame)
  /\ state.currentSet \in {1, 2, 3}
  /\ state.matchWinner \in {"undefined", "Player1", "Player2"}

(***************************************************************************)
(* C17: the game transition is total over the game states reached in play  *)
(* and both players: it raises no error and returns a game state; applied  *)
(* to GameOver{w} with either point winner it returns GameOver{w}.         *)
(***************************************************************************)
C17_GameTransitionTotal ==
  /\ \A p \in PlayerSchema :
       /\ ~updateGameStateThrows(matchState.currentGame, p)
       /\ IsGameState(updateGameState(matchState.currentGame, p))
  /\ \A w \in PlayerSchema, p \in PlayerSchema :
       /\ ~updateGameStateThrows(GameOver(w), p)
       /\ updateGameState(GameOver(w), p) = GameOver(w)

\* 6-6 in a tiebreak: the point is taken and the tiebreak goes on at 7-6.
C17_Witness ==
  /\ matchState.currentGame = TiebreakGame(<<6, 6>>)
  /\ updateGameState(matchState.currentGame, "Player1") = TiebreakGame(<<7, 6>>)
  /\ updateGameState(GameOver("Player2"), "Player1") = GameOver("Player2")

(***************************************************************************)
(* C18: every state reachable by PointScored, NewGame and NewMatch is      *)
(* structurally valid: sets and tiebreaks have exactly 3 entries, all game *)
(* and tiebreak counts are non-negative integers, currentSet is 1, 2 or 3, *)
(* currentGame is one well-formed variant, and matchWinner is absent or    *)
(* one of the two players.                                                 *)
(***************************************************************************)
C18_StructurallyValid == IsMatchState(matchState)

\* A match decided by a tiebreak in the third set.
C18_Witness ==
  /\ IsMatchState(matchState)
  /\ matchState.currentSet = 3
  /\ matchState.tiebreaks[3] # null
  /\ matchState.matchWinner = "Player1"

(***************************************************************************)
(* C19: no reachable state has currentGame = Normal with both points at    *)
(* FORTY: the point that would bring both players to FORTY gives Deuce.    *)
(***************************************************************************)
C19_NoFortyAll ==
  /\ matchState.currentGame # NormalGame("Player1", "FORTY", "FORTY")
  /\ \A w \in PlayerSchema :
       updateGameState(matchState.currentGame, w) #
         NormalGame("Player1", "FORTY", "FORTY")

\* FORTY-THIRTY: the trailing player's point gives Deuce.
C19_Witness ==
  /\ matchState.currentGame = NormalGame("Player1", "FORTY", "THIRTY")
  /\ scorePoint(matchState, "Player2").currentGame = [kind |-> "Deuce"]

(***************************************************************************)
(* C20: applied to a Normal game in which both points are already FORTY,   *)
(* the game transition signals a failure instead of returning a game state *)
(* (it does not go on silently to Deuce, Advantage or GameOver).           *)
(***************************************************************************)
C20_FortyAllFails ==
  matchState.currentGame = NormalGame("Player1", "FORTY", "FORTY") =>
    \A w \in PlayerSchema : updateGameStateThrows(matchState.currentGame, w)

(***************************************************************************)
(* C21: in every state reachable from startMatch() by PointScored, NewGame *)
(* and NewMatch messages, if currentGame is a Tiebreak then the set at     *)
(* currentSet - 1 stands at exactly (6,6) and matchWinner is absent.       *)
(***************************************************************************)
C21_TiebreakOnlyAtSixAll ==
  matchState.currentGame.kind = "Tiebreak" =>
    /\ At(matchState.sets, matchState.currentSet - 1) = <<6, 6>>
    /\ matchState.matchWinner = undefined

\* A tiebreak under way in the third set.
C21_Witness ==
  /\ matchState.currentSet = 3
  /\ matchState.currentGame = TiebreakGame(<<3, 4>>)
  /\ matchState.sets[3] = <<6, 6>>
  /\ matchState.tiebreaks[1] # null

C24_SetsAroundCurrent ==
  /\ \A i \in 0..2 :
       /\ i < matchState.currentSet - 1 =>
            \E p \in PlayerSchema : WonSet(At(matchState.sets, i), p)
       /\ i > matchState.currentSet - 1 =>
            /\ At(matchState.sets, i) = <<0, 0>>
            /\ At(matchState.tiebreaks, i) = null
  /\ \A msg \in Msg \ {[kind |-> "NewMatch"]} :
       LET result == update(matchState, msg)
       IN /\ result.currentSet >= matchState.currentSet
          /\ result.currentSet <= matchState.currentSet + 1

\* One set all: a second set that went to a tiebreak ends, and the point
\* moves the match from set 2 to set 3.
C24_Witness ==
  /\ matchState.currentSet = 2
  /\ WonSet(matchState.sets[1], "Player1")
  /\ matchState.sets[3] = <<0, 0>>
  /\ matchState.currentGame = TiebreakGame(<<4, 6>>)
  /\ scorePoint(matchState, "Player2").currentSet = 3
  /\ scorePoint(matchState, "Player1").currentSet = 2

(***************************************************************************)
(* C25: no state returned by scorePoint or by the dispatch function,       *)
(* starting from startMatch(), has a currentGame of kind GameOver: the     *)
(* point that ends a game puts Normal{LOVE,LOVE} or Tiebreak{0,0} in its   *)
(* place in the same step, so the page's point display, which has no       *)
(* GameOver case, is never given one.                                      *)
(***************************************************************************)
C25_NeverGameOver ==
  /\ matchState.currentGame.kind # "GameOver"
  /\ ~getDisplayPointsThrows(matchState.currentGame)
  /\ \A msg \in Msg : update(matchState, msg).currentGame.kind # "GameOver"
  /\ \A w \in PlayerSchema :
       /\ scorePoint(matchState, w).currentGame.kind # "GameOver"
       /\ EndsGame(matchState, w) =>
            scorePoint(matchState, w).currentGame \in
              {NormalGame("Player1", "LOVE", "LOVE"), TiebreakGame(<<0, 0>>)}

\* 6-5 with the advantage to the trailing player: the point ends the game
\* and the tiebreak takes its place at once.
C25_Witness ==
  /\ matchState.sets[matchState.currentSet] = <<6, 5>>
  /\ matchState.currentGame = [kind |-> "Advantage", playerAtAdvantage |-> "Player2"]
  /\ updateGameState(matchState.currentGame, "Player2") = GameOver("Player2")
  /\ scorePoint(matchState, "Player2").currentGame = TiebreakGame(<<0, 0>>)

(***************************************************************************)
(* C26: the three drafts of the scoring module in tennis.ts are            *)
(* observationally equivalent: stepped side by side from startMatch() on   *)
(* the same sequence of PointScored messages they always hold the same     *)
(* sets, tiebreaks, currentGame, currentSet and matchWinner.               *)
(***************************************************************************)
C26_DraftsEquivalent ==
  \A field \in {"sets", "tiebreaks", "currentGame", "currentSet", "matchWinner"} :
    /\ matchState.draft1[field] = matchState.draft2[field]
    /\ matchState.draft2[field] = matchState.draft3[field]

(***************************************************************************)
(* C27: a point that ends a game changes exactly one entry of sets, the    *)
(* one at index currentSet - 1 (currentSet taken before the point), by     *)
(* adding exactly 1 to the game winner's count and 0 to the other's; all   *)
(* other entries are unchanged, so a set that already has a winner is not  *)
(* modified by any later PointScored or NewGame message.                   *)
(***************************************************************************)
C27_GameEndChangesOneSet ==
  /\ \A w \in PlayerSchema :
       EndsGame(matchState, w) =>
         LET result == scorePoint(matchState, w)
             index == matchState.currentSet - 1
         IN /\ \A i \in 0..2 :
                 At(result.sets, i) # At(matchState.sets, i) <=> i = index
            /\ Of(At(result.sets, index), w) = Of(At(matchState.sets, index), w) + 1
            /\ Of(At(result.sets, index), Other(w)) =
                 Of(At(matchState.sets, index), Other(w))
  /\ \A msg \in Msg \ {[kind |-> "NewMatch"]} :
       \A i \in 0..2 :
         (\E p \in PlayerSchema : WonSet(At(matchState.sets, i), p)) =>
           At(update(matchState, msg).sets, i) = At(matchState.sets, i)

\* 3-6, 4-2 and game point to Player2: the point makes it 3-6, 4-3 and the
\* first set, already won, stays as it is.
C27_Witness ==
  /\ matchState.sets = <<<<3, 6>>, <<4, 2>>, <<0, 0>>>>
  /\ matchState.currentSet = 2
  /\ matchState.currentGame = NormalGame("Player2", "FORTY", "THIRTY")
  /\ scorePoint(matchState, "Player2").sets = <<<<3, 6>>, <<4, 3>>, <<0, 0>>>>

(***************************************************************************)
(* Vocabulary: the image of a snapshot under the exchange of the players.  *)
(***************************************************************************)
SwapPair(pair) == IF pair = null THEN null ELSE <<pair[2], pair[1]>>

SwapPlayer(player) == IF player = undefined THEN undefined ELSE Other(player)

SwapGame(game) ==
  CASE game.kind = "Normal" ->
         [kind |-> "Normal", player1Point |-> game.player2Point,
                             player2Point |-> game.player1Point]
    [] game.kind = "Deuce" -> game
    [] game.kind = "Advantage" ->
         [kind |-> "Advantage", playerAtAdvantage |-> Other(game.playerAtAdvantage)]
    [] game.kind = "Tiebreak" ->
         [kind |-> "Tiebreak", p1Points |-> game.p2Points, p2Points |-> game.p1Points]
    [] game.kind = "GameOver" ->
         [kind |-> "GameOver", gameWinner |-> Other(game.gameWinner)]

SwapState(state) ==
  [sets |-> [i \in 1..3 |-> SwapPair(state.sets[i])],
   tiebreaks |-> [i \in 1..3 |-> SwapPair(state.tiebreaks[i])],
   currentGame |-> SwapGame(state.currentGame),
   currentSet |-> state.currentSet,
   matchWinner |-> SwapPlayer(state.matchWinner)]

(***************************************************************************)
(* C28: scoring is symmetric in the two players: for every reachable state *)
(* s and player p, exchanging Player1 and Player2 everywhere in s and      *)
(* scoring the point for the other player gives the exchanged image of     *)
(* scorePoint(s, p).                                                       *)
(***************************************************************************)
C28_PlayerSymmetry ==
  \A p \in PlayerSchema :
    scorePoint(SwapState(matchState), Other(p)) =
      SwapState(scorePoint(matchState, p))

\* 6-3 and a second-set tiebreak at 5-6: Player2's point ends it 5-7, and
\* on the exchanged snapshot Player1's point ends it 7-5.
C28_Witness ==
  /\ matchState.sets = <<<<6, 3>>, <<6, 6>>, <<0, 0>>>>
  /\ matchState.currentGame = TiebreakGame(<<5, 6>>)
  /\ scorePoint(matchState, "Player2").tiebreaks[2] = <<5, 7>>
  /\ scorePoint(SwapState(matchState), "Player1").tiebreaks[2] = <<7, 5>>
  /\ scorePoint(SwapState(matchState), "Player1").sets =
       <<<<3, 6>>, <<7, 6>>, <<0, 0>>>>

(***************************************************************************)
(* Vocabulary: `player` wins every point from `state` on; the match is     *)
(* decided for `player` within `fuel` points.                              *)
(***************************************************************************)
RECURSIVE RunDecides(_, _, _)
RunDecides(state, player, fuel) ==
  IF state.matchWinner # undefined THEN state.matchWinner = player
  ELSE IF fuel = 0 THEN FALSE
  ELSE RunDecides(scorePoint(state, player), player, fuel - 1)

(***************************************************************************)
(* C29: from every reachable state with matchWinner absent, if one and the *)
(* same player wins every subsequent point, the match is decided with that *)
(* player as matchWinner after a bounded number of points; no undecided    *)
(* state is one from which a decision cannot be reached.                   *)
(***************************************************************************)
C29_RunDecidesMatch ==
  Undecided(matchState) =>
    \A p \in PlayerSchema : RunDecides(matchState, p, MaxRunLength)

\* 0-5 and LOVE-FORTY in the first set: Player1 needs every one of the 53
\* points (five for the game, 24 for 7-5, 24 for the second set).
C29_Witness ==
  /\ matchState.sets = <<<<0, 5>>, <<0, 0>>, <<0, 0>>>>
  /\ matchState.currentGame = NormalGame("Player1", "LOVE", "FORTY")
  /\ RunDecides(matchState, "Player1", 53)
  /\ ~RunDecides(matchState, "Player1", 52)
  /\ RunDecides(matchState, "Player2", 25)

(***************************************************************************)
(* Vocabulary: a tiebreak score that is won.                               *)
(***************************************************************************)
Max(a, b) == IF a >= b THEN a ELSE b

TiebreakWon(pair) == Max(pair[1], pair[2]) >= 7 /\ Abs(pair[1] - pair[2]) >= 2

(***************************************************************************)
(* C30: every recorded (non-absent) tiebreaks entry of a reachable state   *)
(* is a finished tiebreak score: its larger count is >= 7, the difference  *)
(* is >= 2, and if the larger count exceeds 7 the difference is exactly 2; *)
(* and every reachable in-progress Tiebreak{p1,p2} is not yet won.         *)
(***************************************************************************)
C30_TiebreakScoresFinished ==
  /\ \A i \in 1..3 :
       LET tb == matchState.tiebreaks[i]
       IN tb # null =>
            /\ Max(tb[1], tb[2]) >= 7
            /\ Abs(tb[1] - tb[2]) >= 2
            /\ Max(tb[1], tb[2]) > 7 => Abs(tb[1] - tb[2]) = 2
  /\ matchState.currentGame.kind = "Tiebreak" =>
       ~TiebreakWon(TiebreakPair(matchState.currentGame))

\* A first set that went to 8-6 in the tiebreak, and a second-set tiebreak
\* standing at 7-6.
C30_Witness ==
  /\ matchState.tiebreaks[1] = <<8, 6>>
  /\ matchState.tiebreaks[2] = null
  /\ matchState.currentSet = 2
  /\ matchState.currentGame = TiebreakGame(<<7, 6>>)

(***************************************************************************)
(* C31: in every reachable state with matchWinner set, the winner has won  *)
(* exactly 2 sets and the opponent at most 1, the winner is the winner of  *)
(* the set at index currentSet - 1 (the last set played), and the two      *)
(* players have never both won 2 or more sets.                             *)
(***************************************************************************)
C31_WinnerTookLastSet ==
  /\ ~(SetsWon(matchState.sets, "Player1") >= 2
         /\ SetsWon(matchState.sets, "Player2") >= 2)
  /\ ~Undecided(matchState) =>
       LET winner == matchState.matchWinner
       IN /\ winner \in PlayerSchema
          /\ SetsWon(matchState.sets, winner) = 2
          /\ SetsWon(matchState.sets, Other(winner)) <= 1
          /\ WonSet(At(matchState.sets, matchState.currentSet - 1), winner)

\* A match won by Player2 in three sets, the third on a tiebreak.
C31_Witness ==
  /\ matchState.matchWinner = "Player2"
  /\ matchState.currentSet = 3
  /\ SetsWon(matchState.sets, "Player1") = 1
  /\ matchState.sets[3] = <<6, 7>>
  /\ matchState.tiebreaks[3] # null

(***************************************************************************)
(* Vocabulary: the scores a set can show. A set is played game by game     *)
(* until the set-winner rule names a winner, so it shows a score nobody    *)
(* has won yet (up to 6-5, or 6-6) or a score just won (6-0 .. 6-4, 7-5,   *)
(* 7-6, either way round).                                                 *)
(***************************************************************************)
LegalSetScore(set) ==
  \/ set[1] <= 6 /\ set[2] <= 6 /\ Abs(set[1] - set[2]) <= 1
  \/ set[1] <= 5 /\ set[2] <= 5
  \/ \E p \in PlayerSchema :
       \/ Of(set, p) = 6 /\ Of(set, Other(p)) <= 4
       \/ Of(set, p) = 7 /\ Of(set, Other(p)) \in {5, 6}

(***************************************************************************)
(* C32: in every state reachable from startMatch() by PointScored, NewGame *)
(* and NewMatch messages, each set's game counts stay within the legal     *)
(* scores: neither count exceeds 7, a count of 7 occurs only as 7-5 or 7-6 *)
(* (or mirrored), and no set goes beyond the first score at which the      *)
(* set-winner rule names a winner: a won set is left as it is by every     *)
(* further PointScored and NewGame message.                                *)
(***************************************************************************)
C32_LegalSetScores ==
  \A i \in 1..3 :
    LET set == matchState.sets[i]
    IN /\ set[1] <= 7 /\ set[2] <= 7
       /\ \A p \in PlayerSchema : Of(set, p) = 7 => Of(set, Other(p)) \in {5, 6}
       /\ LegalSetScore(set)
       /\ (\E p \in PlayerSchema : WonSet(set, p)) =>
            \A msg \in Msg \ {[kind |-> "NewMatch"]} :
              update(matchState, msg).sets[i] = set

\* A 7-5 first set and a 6-7 second set, the third under way at 5-6.
C32_Witness ==
  /\ matchState.sets = <<<<7, 5>>, <<6, 7>>, <<5, 6>>>>
  /\ matchState.currentSet = 3
  /\ Undecided(matchState)

====
